---- MODULE Spec2Model ----
(***************************************************************************)
(* The EU AI Act assessment engine of governance/views.py:                 *)
(* run_assessment_logic and its four block evaluators, applied to the      *)
(* profile and assessment state of one AI system; the API views that read  *)
(* and write agents.json; and the MockAgentRepository of the container.    *)
(***************************************************************************)
EXTENDS Integers, Sequences, FiniteSets, TLC

VARIABLES profile_data, assessment_state, assessment_results, pc,
          agents_file, requests, log, container, repository_answer

\* The stored profile, state and results of one AI system.
engine_vars == <<profile_data, assessment_state, assessment_results, pc>>

\* agents.json, the requests in flight with the order of their reads and
\* writes, and the repository of the container with its last answer.
store_vars == <<agents_file, requests, log, container, repository_answer>>

vars == <<profile_data, assessment_state, assessment_results, pc,
          agents_file, requests, log, container, repository_answer>>

----------------------------------------------------------------------------
(* Answer strings of the profile form (Section 7, Q1).                     *)

NoneOfTheAbove == "None of the above"

Practice5_1_a == "Subliminal / manipulative / deceptive techniques that materially distort behaviour and are likely to cause significant harm"
Practice5_1_b == "Exploitation of vulnerabilities (age, disability, or social / economic situation) to distort behaviour likely causing significant harm"
Practice5_1_c == "Social scoring leading to detrimental / unfavourable treatment (esp. unjustified / disproportionate)"
Practice5_1_d == "Criminal offence risk assessment / prediction based solely on profiling or personality traits (individual predictive policing)"
Practice5_1_e == "Untargeted scraping of facial images from the internet or CCTV to build / expand facial recognition databases"
Practice5_1_f == "Emotion recognition in the workplace or in education settings"
Practice5_1_g == "Biometric categorisation that infers or predicts sensitive traits (e.g., race, political opinions, religion, trade union membership, sexual orientation)"
Practice5_1_h == "Real-time remote biometric identification (RBI) in publicly accessible spaces for law enforcement purposes"

\* A capability that is no key of prohibited_practices_map (it is the needle
\* of Block 3's first trigger).
BiometricIdentification == "Biometric identification and categorisation"
BiometricCategorisationNeedle == "Biometric categorisation that infers or predicts sensitive traits"

\* Python's `needle in text` on the strings of the model: equality, or one of
\* the proper substrings that occur among them.
SubstringPairs ==
    { <<BiometricCategorisationNeedle, Practice5_1_g>>,
      <<NoneOfTheAbove, "None of the above (no exception for biometric/emotion recognition cases)">>,
      <<NoneOfTheAbove, "None of the above (no exception for direct interaction case)">>,
      <<NoneOfTheAbove, "None of the above (no exception for synthetic content case)">>,
      <<NoneOfTheAbove, "None of the above (no exception for citizens/public-facing case)">> }

Contains(needle, text) == needle = text \/ <<needle, text>> \in SubstringPairs

\* str.strip() on the strings of the model: a string of blanks becomes "".
BlankStrings == {"", " ", "  "}

strip(s) == IF s \in BlankStrings THEN "" ELSE s

----------------------------------------------------------------------------
(* JSON values that the code tests with isinstance(..., list).             *)

JsonList(items) == [kind |-> "list", items |-> items]
NotAList == [kind |-> "other", items |-> <<>>]

\* `x if isinstance(x, list) else []`
AsList(v) == IF v.kind = "list" THEN v.items ELSE <<>>

Range(s) == { s[i] : i \in DOMAIN s }

\* The entries of `options` that are ticked, in the order of the form.
Checked(options, ticked) == SelectSeq(options, LAMBDA o : o \in ticked)

RECURSIVE SeqsUpTo(_, _)
SeqsUpTo(S, n) ==
    IF n = 0 THEN { <<>> }
    ELSE LET shorter == SeqsUpTo(S, n - 1)
         IN  shorter \cup { Append(s, x) : s \in { t \in shorter : Len(t) = n - 1 }, x \in S }

----------------------------------------------------------------------------
(* Block 1: prohibited practices screening.                                *)

prohibited_practices_map ==
    [ p \in { Practice5_1_a, Practice5_1_b, Practice5_1_c, Practice5_1_d,
              Practice5_1_e, Practice5_1_f, Practice5_1_g, Practice5_1_h } |->
        CASE p = Practice5_1_a -> [article |-> "5(1)(a)", has_exception |-> FALSE]
          [] p = Practice5_1_b -> [article |-> "5(1)(b)", has_exception |-> FALSE]
          [] p = Practice5_1_c -> [article |-> "5(1)(c)", has_exception |-> FALSE]
          [] p = Practice5_1_d -> [article |-> "5(1)(d)", has_exception |-> TRUE]
          [] p = Practice5_1_e -> [article |-> "5(1)(e)", has_exception |-> FALSE]
          [] p = Practice5_1_f -> [article |-> "5(1)(f)", has_exception |-> TRUE]
          [] p = Practice5_1_g -> [article |-> "5(1)(g)", has_exception |-> TRUE]
          [] p = Practice5_1_h -> [article |-> "5(1)(h)", has_exception |-> TRUE] ]

\* Variant: a practice that is no key of the map counts as having an exception.
has_exception_default_true(p) ==
    IF p \in DOMAIN prohibited_practices_map
    THEN prohibited_practices_map[p].has_exception
    ELSE TRUE

\* prohibited_practices_map.get(p, {}).get('has_exception', False)
has_exception(p) ==
    IF p \in DOMAIN prohibited_practices_map
    THEN prohibited_practices_map[p].has_exception
    ELSE FALSE

\* Variant: the filter keeps every entry.
selected_practices_unfiltered(capability_practices) == capability_practices

\* [p for p in capability_practices if p != 'None of the above']
selected_practices_of(capability_practices) ==
    SelectSeq(capability_practices, LAMBDA p : p # NoneOfTheAbove)

\* [p for p in selected_practices if ...get('has_exception', False)]
practices_with_exception_of(selected_practices) ==
    SelectSeq(selected_practices, has_exception)

\* {} as a dict keyed by practice
EmptyMap == [p \in {} |-> ""]

\* The state a handler creates when the agent has no block1_state; also what
\* block1_state.get(key, default) reads from an empty dict.
Block1StateDefault ==
    [ prohibited_confirmed |-> FALSE,
      claiming_exception |-> "",
      exception_qualifies_map |-> EmptyMap,
      exception_evidence_map |-> EmptyMap ]

NoEvidence == [link |-> "", files |-> <<>>, explanation |-> ""]

\* evidence_map.get(p, {}) with its three .get defaults
evidence_of(evidence_map, p) ==
    IF p \in DOMAIN evidence_map THEN evidence_map[p] ELSE NoEvidence

\* has_link or has_files or has_explanation
has_evidence(e) == e.link # "" \/ e.files # <<>> \/ e.explanation # ""

\* Variant: evidence for one practice is enough.
all_evidence_provided_any(evidence_map, practices_with_exception) ==
    \E i \in DOMAIN practices_with_exception :
        has_evidence(evidence_of(evidence_map, practices_with_exception[i]))

\* the loop that sets all_evidence_provided
all_evidence_provided(evidence_map, practices_with_exception) ==
    \A i \in DOMAIN practices_with_exception :
        has_evidence(evidence_of(evidence_map, practices_with_exception[i]))

\* `if reset_state: block1_state.clear()`: the state the call leaves behind.
block1_state_after(block1_state, reset_state) ==
    IF reset_state THEN Block1StateDefault ELSE block1_state

Block1Result(status, selected_practices, reason) ==
    [status |-> status, selected_practices |-> selected_practices, reason |-> reason]

\* The part of get_block1_status after the user has confirmed.
block1_after_confirmation(selected_practices, st) ==
    LET has_no_exception_practice ==
            \E i \in DOMAIN selected_practices : ~has_exception(selected_practices[i])
        claiming_exception == st.claiming_exception
        qualifies_map == st.exception_qualifies_map
        practices_with_exception == practices_with_exception_of(selected_practices)
        all_answered ==
            \A i \in DOMAIN practices_with_exception :
                practices_with_exception[i] \in DOMAIN qualifies_map
        results == { qualifies_map[practices_with_exception[i]] :
                        i \in DOMAIN practices_with_exception }
    IN  IF has_no_exception_practice \/ claiming_exception = "No"
        THEN Block1Result("Prohibited", selected_practices,
                 IF has_no_exception_practice
                 THEN "No exception available for one or more selected practices"
                 ELSE "User declined exception")
        ELSE IF claiming_exception = ""
        THEN Block1Result("Triggered", selected_practices, "Awaiting exception claim decision")
        ELSE IF ~all_answered
        THEN Block1Result("Triggered", selected_practices, "Awaiting answers for all exception claims")
        ELSE IF "No" \in results
        THEN Block1Result("Prohibited", selected_practices,
                 "One or more exception claims were denied (answered \"No\")")
        ELSE IF "Not sure" \in results
        THEN Block1Result("Needs Review", selected_practices,
                 "Uncertain about at least one exception qualification")
        ELSE IF all_evidence_provided(st.exception_evidence_map, practices_with_exception)
        THEN Block1Result("Exception claimed", selected_practices,
                 "Evidence provided for all exception claims")
        ELSE Block1Result("Needs Review", selected_practices,
                 "Awaiting evidence for one or more exception claims")

get_block1_status(profile, block1_state, reset_state) ==
    LET capability_practices == AsList(profile.capability_practices)
        st == block1_state_after(block1_state, reset_state)
        selected_practices == selected_practices_of(capability_practices)
    IN  IF Len(capability_practices) = 0
        THEN Block1Result("Not assessed", <<>>, "No capabilities selected")
        ELSE IF NoneOfTheAbove \in Range(capability_practices) /\ Len(capability_practices) = 1
        THEN Block1Result("PASS", <<>>, "None of the above selected")
        ELSE IF selected_practices = <<>>
        THEN Block1Result("PASS", <<>>, "No prohibited practices selected")
        ELSE IF ~st.prohibited_confirmed
        THEN Block1Result("Triggered", selected_practices,
                 "Prohibited practices detected, awaiting confirmation")
        ELSE block1_after_confirmation(selected_practices, st)

----------------------------------------------------------------------------
(* Block 2: high-risk classification.                                      *)

\* Variant: the placeholder answers True.
ai_detects_high_risk_yes == TRUE

\* The placeholder of the AI detection.
ai_detects_high_risk == FALSE

\* ai_detects_prohibited_practice: `return False`. Nothing in the engine
\* calls it.
ai_detects_prohibited_practice == FALSE

Block2Result(status, reason, trigger, step) ==
    [status |-> status, reason |-> reason, trigger |-> trigger, step |-> step]

Block2StateDefault ==
    [ high_risk_confirmed |-> FALSE,
      material_influence |-> "",
      narrow_tasks |-> JsonList(<<>>),
      profiling |-> "",
      exemption_evidence_uploaded |-> FALSE,
      exemption_evidence_saved_link |-> "" ]

\* s == 'Prohibited' for the status of block1_result
block1_prohibited(block1_result) == block1_result.status = "Prohibited"

\* Variant: the confirmation is not read.
block2_when_prohibited_unconfirmed(block2_state) ==
    Block2Result("Triggered",
        "Block 1 Prohibited - high-risk trigger; confirm or edit profile",
        "block1_prohibited", "")

\* the branch `if block1_prohibited:`
block2_when_prohibited(block2_state) ==
    IF block2_state.high_risk_confirmed
    THEN Block2Result("High-risk", "Block 1 Prohibited, user confirmed high-risk",
             "block1_prohibited", "")
    ELSE Block2Result("Triggered",
             "Block 1 Prohibited - high-risk trigger; confirm or edit profile",
             "block1_prohibited", "")

\* Variant: the safety component alone makes Condition 1.
condition1_safety_only(safety_component, third_party_conformity) ==
    safety_component = "Yes"

condition1(safety_component, third_party_conformity) ==
    safety_component = "Yes" /\ third_party_conformity = "Yes"

condition2(sector_domain) ==
    \E i \in DOMAIN sector_domain :
        sector_domain[i] \notin {"Other / not listed", "Other / not listed:", ""}

\* Variant: the string comparison of 'None of above' never matches.
none_of_above_never(narrow_tasks) == FALSE

\* 'None of above' in narrow_tasks or 'None of above' in [str(x) for x in narrow_tasks]
none_of_above(narrow_tasks) == "None of above" \in Range(narrow_tasks)

\* [t for t in narrow_tasks if t and str(t).strip() and str(t) != 'None of above']
specific_tasks_of(narrow_tasks) ==
    SelectSeq(narrow_tasks, LAMBDA t : t # "" /\ strip(t) # "" /\ t # "None of above")

\* Variant: the saved link is not stripped.
exemption_evidence_unstripped(block2_state) ==
    block2_state.exemption_evidence_uploaded
        \/ block2_state.exemption_evidence_saved_link # ""

exemption_evidence(block2_state) ==
    block2_state.exemption_evidence_uploaded
        \/ strip(block2_state.exemption_evidence_saved_link) # ""

\* Step 7 of get_block2_status: the Annex III exemption test, Q1 to evidence.
annex_iii_exemption_test(block2_state) ==
    LET material_influence == block2_state.material_influence
        narrow_tasks == AsList(block2_state.narrow_tasks)
        profiling == block2_state.profiling
        specific_tasks == specific_tasks_of(narrow_tasks)
    IN  IF material_influence = "Not sure"
        THEN Block2Result("Needs Review", "Annex III Q1: Not sure - needs review", "", "q1")
        ELSE IF material_influence = "Yes"
        THEN Block2Result("Not high-risk",
                 "Annex III Q1: Material influence Yes -> Not high-risk (per flowchart)", "", "q1")
        ELSE IF material_influence # "No"
        THEN Block2Result("Triggered", "Annex III: awaiting Q1 (Material influence)", "", "q1")
        ELSE IF specific_tasks = <<>> /\ ~none_of_above(narrow_tasks)
        THEN Block2Result("Triggered", "Annex III: awaiting Q2 (Task type selection)", "", "q2")
        ELSE IF none_of_above(narrow_tasks)
        THEN Block2Result("Needs Review",
                 "Annex III Q2: None of above -> Needs review (per flowchart)", "", "q2")
        ELSE IF profiling = "Unknown"
        THEN Block2Result("Needs Review", "Annex III Q3: Profiling Unknown -> Needs review", "", "q3")
        ELSE IF profiling = "Yes"
        THEN Block2Result("High-risk", "Annex III Q3: Profiling Yes -> High-risk", "", "q3")
        ELSE IF profiling # "No"
        THEN Block2Result("Triggered", "Annex III: awaiting Q3 (Profiling)", "", "q3")
        ELSE IF exemption_evidence(block2_state)
        THEN Block2Result("Not high-risk",
                 "Annex III: Profiling No + evidence provided -> Not high-risk", "", "evidence")
        ELSE Block2Result("High-risk",
                 "Annex III: Profiling No but no exemption evidence yet", "", "evidence")

get_block2_status(profile, block1_result, block2_state) ==
    LET ip == profile.intended_purpose
        sector_domain == AsList(ip.sector_domain)
        safety_component == ip.safety_component
        third_party_conformity == ip.third_party_conformity
        has_sector == Len(sector_domain) > 0
        has_safety == safety_component # ""
        c1 == condition1(safety_component, third_party_conformity)
        c2 == condition2(sector_domain)
    IN  IF ai_detects_high_risk
        THEN IF block2_state.high_risk_confirmed
             THEN Block2Result("High-risk",
                      "AI detected high-risk classification, user confirmed", "ai_detection", "")
             ELSE Block2Result("Triggered",
                      "AI detected high-risk classification", "ai_detection", "")
        ELSE IF block1_prohibited(block1_result)
        THEN block2_when_prohibited(block2_state)
        ELSE IF ~has_sector /\ ~has_safety
        THEN Block2Result("Not assessed", "Section 4 not answered (Q2 Sector, Q3 Safety)", "", "")
        ELSE IF safety_component = "Yes" /\ third_party_conformity = ""
        THEN Block2Result("Not assessed",
                 "Safety component Yes but third-party conformity not answered", "", "")
        ELSE IF ~c1 /\ ~c2
        THEN Block2Result("De-activated", "No high-risk conditions met", "", "")
        ELSE IF ~block2_state.high_risk_confirmed
        THEN Block2Result("Triggered", "High-risk conditions met, awaiting confirmation",
                 IF c1 /\ c2 THEN "both" ELSE IF c1 THEN "condition1" ELSE "condition2", "")
        ELSE IF c1 /\ ~c2
        THEN Block2Result("High-risk",
                 "Safety component + third-party conformity (Condition 1 only)", "", "")
        ELSE annex_iii_exemption_test(block2_state)

----------------------------------------------------------------------------
(* Block 3: transparency obligation.                                       *)

Block3Result(status, reason) == [status |-> status, reason |-> reason]

Block3StateDefault ==
    [ transparency_confirmed |-> FALSE,
      exception_options |-> JsonList(<<>>),
      transparency_evidence_uploaded |-> FALSE,
      transparency_evidence_saved_link |-> "" ]

group1_2_3_options ==
    << "Permitted by law to detect, prevent or investigate criminal offences, as stated in Art. 50(3)",
       "None of the above (no exception for biometric/emotion recognition cases)" >>

group4_options ==
    << "\"Obvious to the user\" exception (no notice needed), as stated in Art. 50(1)",
       "Authorised by law to detect, prevent, investigate or prosecute criminal offences, as stated in Art. 50(1)",
       "None of the above (no exception for direct interaction case)" >>

group5_options ==
    << "Deepfake labelling exception (e.g., artistic / satire / fiction), as stated in Art. 50(4)",
       "None of the above (no exception for synthetic content case)" >>

group6_options ==
    << "Authorised by law to detect, prevent, investigate or prosecute criminal offences, as stated in Art. 50(4)",
       "Human review is in place or a natural or legal person holds editorial responsibility for the publication of the content, as stated in Art. 50(4)",
       "None of the above (no exception for citizens/public-facing case)" >>

\* The six trigger cases of get_block3_status, as the set of the cases met.
triggers_of(profile) ==
    LET capability_practices == AsList(profile.capability_practices)
        synthetic_content == AsList(profile.synthetic_content)
        affected_outputs == AsList(profile.affected_outputs)
        some_capability(needle) ==
            \E i \in DOMAIN capability_practices : Contains(needle, capability_practices[i])
    IN  (IF some_capability(BiometricIdentification) THEN {"case1"} ELSE {})
        \cup (IF some_capability(Practice5_1_f) THEN {"case2"} ELSE {})
        \cup (IF some_capability(BiometricCategorisationNeedle) THEN {"case3"} ELSE {})
        \cup (IF profile.interacts_persons = "Yes" THEN {"case4"} ELSE {})
        \cup (IF Len(synthetic_content) > 0 /\ "No" \notin Range(synthetic_content)
              THEN {"case5"} ELSE {})
        \cup (IF "Citizens / residents" \in Range(affected_outputs)
                    \/ profile.deployment_context = "General public / consumer-facing"
              THEN {"case6"} ELSE {})

\* Variant: Unknown answers are not looked for.
has_unknowns_never(interacts_persons) == FALSE

\* has_unknowns = (interacts_persons == 'Unknown')
has_unknowns(interacts_persons) == interacts_persons = "Unknown"

\* case_groups, as the set of the groups the triggers map to
case_groups_of(triggers) ==
    (IF triggers \cap {"case1", "case2", "case3"} # {} THEN {"group1_2_3"} ELSE {})
    \cup (IF "case4" \in triggers THEN {"group4"} ELSE {})
    \cup (IF "case5" \in triggers THEN {"group5"} ELSE {})
    \cup (IF "case6" \in triggers THEN {"group6"} ELSE {})

\* any(opt in group_options and 'None of the above' not in opt for opt in exception_options)
has_group(group_options, exception_options) ==
    \E i \in DOMAIN exception_options :
        /\ exception_options[i] \in Range(group_options)
        /\ ~Contains(NoneOfTheAbove, exception_options[i])

\* Steps 6 to 8 of get_block3_status: after the user has confirmed.
block3_exception_selection(block3_state, triggers) ==
    LET exception_options == AsList(block3_state.exception_options)
        case_groups == case_groups_of(triggers)
        has_no_exception ==
            \E i \in DOMAIN exception_options : Contains(NoneOfTheAbove, exception_options[i])
        has_exception_for_all ==
            /\ "group1_2_3" \in case_groups => has_group(group1_2_3_options, exception_options)
            /\ "group4" \in case_groups => has_group(group4_options, exception_options)
            /\ "group5" \in case_groups => has_group(group5_options, exception_options)
            /\ "group6" \in case_groups => has_group(group6_options, exception_options)
        evidence_provided ==
            block3_state.transparency_evidence_uploaded
                \/ strip(block3_state.transparency_evidence_saved_link) # ""
    IN  IF has_no_exception
        THEN Block3Result("Applies",
                 "\"None of the above\" selected for at least one case group - transparency obligations apply")
        ELSE IF ~has_exception_for_all
        THEN Block3Result("Needs Review",
                 "Incomplete exception selections - not all case groups have valid exceptions")
        ELSE IF evidence_provided
        THEN Block3Result("Not Applicable",
                 "Valid exceptions for all groups with evidence provided - transparency obligations do not apply")
        ELSE Block3Result("Needs Review",
                 "Valid exceptions for all groups but evidence not provided - needs review")

\* get_block3_status once Block 1 is known not to be Prohibited.
block3_transparency(profile, block3_state) ==
    LET capability_practices == AsList(profile.capability_practices)
        triggers == triggers_of(profile)
    IN  IF Len(capability_practices) = 0
        THEN Block3Result("Not assessed", "Capabilities not answered (Section 7, Q1)")
        ELSE IF has_unknowns(profile.interacts_persons) /\ triggers # {}
        THEN Block3Result("Not assessed",
                 "Triggers detected but questions not all answered (Unknown values)")
        ELSE IF triggers = {}
        THEN Block3Result("Not Applicable", "No transparency triggers detected")
        ELSE IF ~block3_state.transparency_confirmed
        THEN IF has_unknowns(profile.interacts_persons)
             THEN Block3Result("Needs Review",
                      "Triggers detected but Unknown values require review")
             ELSE Block3Result("Triggered",
                      "Transparency triggers detected, awaiting confirmation")
        ELSE block3_exception_selection(block3_state, triggers)

\* Variant: the status of Block 1 is not checked.
get_block3_status_unguarded(profile, block1_result, block3_state) ==
    block3_transparency(profile, block3_state)

get_block3_status(profile, block1_result, block3_state) ==
    IF block1_prohibited(block1_result)
    THEN Block3Result("De-activated",
             "Block 1 Prohibited - transparency obligation assessment not applicable")
    ELSE block3_transparency(profile, block3_state)

----------------------------------------------------------------------------
(* Block 4: GPAI obligation.                                               *)

Block4Result(status, reason) == [status |-> status, reason |-> reason]

Block4StateDefault == [gpai_confirmed |-> FALSE, gpai_provider_answer |-> ""]

\* get_block4_status once Block 1 is known not to be Prohibited.
block4_gpai(profile, block4_state) ==
    LET gpai_integration == profile.gpai_integration
        gpai_confirmed == block4_state.gpai_confirmed
        gpai_provider_answer == block4_state.gpai_provider_answer
    IN  IF gpai_integration = ""
        THEN Block4Result("Not assessed", "GPAI integration question not answered (Section 8, Q2)")
        ELSE IF gpai_integration = "No"
        THEN Block4Result("Needs Review", "GPAI integration = No - needs review (per flowchart)")
        ELSE IF gpai_integration = "Unknown"
        THEN IF ~gpai_confirmed
             THEN Block4Result("Triggered",
                      "GPAI integration = Unknown - triggered, awaiting confirmation")
             ELSE Block4Result("Needs Review", "GPAI integration = Unknown - requires review")
        ELSE IF gpai_integration = "Yes"
        THEN IF ~gpai_confirmed
             THEN Block4Result("Triggered", "GPAI integration = Yes - awaiting confirmation")
             ELSE IF gpai_provider_answer = ""
             THEN Block4Result("Needs Review",
                      "GPAI integration confirmed but provider question not answered")
             ELSE IF gpai_provider_answer = "No"
             THEN Block4Result("Not Applicable",
                      "GPAI integration = Yes but not a provider - Chapter V does not apply")
             ELSE IF gpai_provider_answer = "Not sure"
             THEN Block4Result("Needs Review", "GPAI provider status uncertain - requires review")
             ELSE IF gpai_provider_answer = "Yes"
             THEN Block4Result("Applies", "GPAI provider - Chapter V obligations apply")
             ELSE Block4Result("Not assessed", "GPAI integration status unclear")
        ELSE Block4Result("Not assessed", "GPAI integration status unclear")

get_block4_status(profile, block1_result, block4_state) ==
    IF block1_prohibited(block1_result)
    THEN Block4Result("De-activated",
             "Block 1 Prohibited - GPAI obligation assessment not applicable")
    ELSE block4_gpai(profile, block4_state)

----------------------------------------------------------------------------
(* run_assessment_logic.                                                   *)

\* The four results of run_assessment_logic.
run_assessment_logic(profile, state, reset_state) ==
    LET block1_result == get_block1_status(profile, state.block1_state, reset_state)
    IN  [ block1 |-> block1_result,
          block2 |-> get_block2_status(profile, block1_result, state.block2_state),
          block3 |-> get_block3_status(profile, block1_result, state.block3_state),
          block4 |-> get_block4_status(profile, block1_result, state.block4_state) ]

\* The assessment state the call leaves: block1_state is cleared in place
\* when reset_state is set, the other three states are passed through.
assessment_state_after(state, reset_state) ==
    [state EXCEPT !.block1_state = block1_state_after(state.block1_state, reset_state)]

----------------------------------------------------------------------------
(* The inputs of the model.                                                *)

\* The longest capability_practices list of the model.
MaxPractices == 2

PracticeUniverse ==
    {NoneOfTheAbove, Practice5_1_a, Practice5_1_f, Practice5_1_g, BiometricIdentification}

\* The practices of PracticeUniverse that have an exception.
ExceptionUniverse == {Practice5_1_f, Practice5_1_g}

CapabilityInputs ==
    { JsonList(s) : s \in SeqsUpTo(PracticeUniverse, MaxPractices) } \cup {NotAList}

PartialMaps(keys, values) == UNION { [D -> values] : D \in SUBSET keys }

EvidenceInputs ==
    { NoEvidence,
      [NoEvidence EXCEPT !.link = "https://example.org/evidence"],
      [NoEvidence EXCEPT !.files = <<"evidence.pdf">>],
      [NoEvidence EXCEPT !.explanation = "medical use only"] }

Block1StateInputs ==
    [ prohibited_confirmed : BOOLEAN,
      claiming_exception : {"", "Yes", "No"},
      exception_qualifies_map : PartialMaps(ExceptionUniverse, {"Yes", "No", "Not sure"}),
      exception_evidence_map : PartialMaps(ExceptionUniverse, EvidenceInputs) ]

sector_options ==
    << "Law enforcement", "Other / not listed", "Other / not listed:", "" >>

SectorInputs ==
    { JsonList(Checked(sector_options, S)) : S \in SUBSET Range(sector_options) }
        \cup {NotAList}

narrow_task_options == << "Preparatory task", "None of above", " " >>

NarrowTaskInputs ==
    { JsonList(Checked(narrow_task_options, S)) : S \in SUBSET Range(narrow_task_options) }

Block2StateInputs ==
    [ high_risk_confirmed : BOOLEAN,
      material_influence : {"", "Yes", "No", "Not sure"},
      narrow_tasks : NarrowTaskInputs,
      profiling : {"", "Yes", "No", "Unknown"},
      exemption_evidence_uploaded : BOOLEAN,
      exemption_evidence_saved_link : {"", "  ", "https://example.org/exemption"} ]

ProfileDefault ==
    [ capability_practices |-> JsonList(<<>>),
      intended_purpose |->
          [ sector_domain |-> JsonList(<<>>),
            safety_component |-> "",
            third_party_conformity |-> "" ],
      interacts_persons |-> "",
      synthetic_content |-> JsonList(<<>>),
      deployment_context |-> "",
      affected_outputs |-> JsonList(<<>>),
      gpai_integration |-> "" ]

AssessmentStateDefault ==
    [ block1_state |-> Block1StateDefault,
      block2_state |-> Block2StateDefault,
      block3_state |-> Block3StateDefault,
      block4_state |-> Block4StateDefault ]

NoResults ==
    [ block1 |-> Block1Result("", <<>>, ""),
      block2 |-> Block2Result("", "", "", ""),
      block3 |-> Block3Result("", ""),
      block4 |-> Block4Result("", "") ]

\* Block 1: every capability list with every Block 1 state.
Block1Profiles ==
    { [ProfileDefault EXCEPT !.capability_practices = c] : c \in CapabilityInputs }

Block1States ==
    { [AssessmentStateDefault EXCEPT !.block1_state = b] : b \in Block1StateInputs }

\* Block 2: Section 4 and the Block 2 state, under a Block 1 that is
\* Prohibited, PASS or Triggered.
Block2Profiles ==
    { [ProfileDefault EXCEPT
          !.capability_practices = c,
          !.intended_purpose = [sector_domain |-> sd, safety_component |-> sc,
                                third_party_conformity |-> tp]] :
        c \in { JsonList(<<Practice5_1_a>>), JsonList(<<NoneOfTheAbove>>) },
        sd \in SectorInputs,
        sc \in {"", "Yes", "No"},
        tp \in {"", "Yes", "No"} }

Block2States ==
    { [AssessmentStateDefault EXCEPT
          !.block1_state = [Block1StateDefault EXCEPT !.prohibited_confirmed = TRUE],
          !.block2_state = b] :
        b \in Block2StateInputs }

\* Block 3: the profile answers its triggers read and the Block 3 state,
\* under every capability list.
exception_option_inputs ==
    << group1_2_3_options[1], group4_options[1], group4_options[3] >>

Block3StateInputs ==
    [ transparency_confirmed : BOOLEAN,
      exception_options :
          { JsonList(Checked(exception_option_inputs, S)) :
              S \in SUBSET Range(exception_option_inputs) },
      transparency_evidence_uploaded : BOOLEAN,
      transparency_evidence_saved_link : {"", "https://example.org/notice"} ]

Block3Profiles ==
    { [ProfileDefault EXCEPT
          !.capability_practices = c,
          !.interacts_persons = ip,
          !.synthetic_content = sc,
          !.deployment_context = dc,
          !.affected_outputs = ao] :
        c \in CapabilityInputs,
        ip \in {"", "Yes", "No", "Unknown"},
        sc \in { JsonList(<<>>), JsonList(<<"No">>), JsonList(<<"Text">>) },
        dc \in {"", "General public / consumer-facing"},
        ao \in { JsonList(<<>>), JsonList(<<"Citizens / residents">>) } }

Block3States ==
    { [AssessmentStateDefault EXCEPT
          !.block1_state = [Block1StateDefault EXCEPT !.prohibited_confirmed = pcf],
          !.block3_state = b] :
        pcf \in BOOLEAN, b \in Block3StateInputs }

\* All four blocks together, each with a few of its inputs.
Block4StateInputs ==
    [ gpai_confirmed : BOOLEAN,
      gpai_provider_answer : {"", "Yes", "No", "Not sure"} ]

AllProfiles ==
    { [ProfileDefault EXCEPT
          !.capability_practices = c,
          !.intended_purpose = [sector_domain |-> sd, safety_component |-> "",
                                third_party_conformity |-> ""],
          !.interacts_persons = ip,
          !.gpai_integration = g] :
        c \in { JsonList(<<>>), JsonList(<<NoneOfTheAbove>>), JsonList(<<Practice5_1_a>>),
                JsonList(<<Practice5_1_f>>), JsonList(<<Practice5_1_f, BiometricIdentification>>) },
        sd \in { JsonList(<<>>), JsonList(<<"Law enforcement">>) },
        ip \in {"", "Yes", "Unknown"},
        g \in {"", "Yes", "No", "Unknown", "Planned"} }

AllStates ==
    [ block1_state :
          [ prohibited_confirmed : BOOLEAN,
            claiming_exception : {"", "Yes", "No"},
            exception_qualifies_map : PartialMaps({Practice5_1_f}, {"Yes", "No", "Not sure"}),
            exception_evidence_map : {EmptyMap} ],
      block2_state :
          { [Block2StateDefault EXCEPT !.high_risk_confirmed = c] : c \in BOOLEAN },
      block3_state :
          { [Block3StateDefault EXCEPT !.transparency_confirmed = c, !.exception_options = o] :
              c \in BOOLEAN,
              o \in { JsonList(<<>>), JsonList(<<group4_options[3]>>) } },
      block4_state : Block4StateInputs ]


----------------------------------------------------------------------------
(* agents.json: the list of AI systems that the API views read whole and   *)
(* write whole, and the handlers as functions of the list they read.       *)

\* One entry of agents.json. `profile`, `result` and `document` are <<>>
\* while the agent has no such key and <<v>> when it has; an agent without
\* 'assessment' reads as the default state with no results.
Agent(id, name, profile, state, results) ==
    [ id |-> id,
      name |-> name,
      profile |-> profile,
      assessment_state |-> state,
      assessment_results |-> results,
      result |-> <<>>,
      documents |-> <<>>,
      document |-> <<>> ]

\* agents.json does not exist
NoFile == [exists |-> FALSE, agents |-> <<>>]

\* `existing_agents = []`, then json.load(f) if agents_file.exists()
load_agents(file) == IF file.exists THEN file.agents ELSE <<>>

\* open(agents_file, 'w') and json.dump(existing_agents, f): the file is
\* the list that was dumped, whatever it held before.
dump_agents(existing_agents) == [exists |-> TRUE, agents |-> existing_agents]

\* A request body that json.loads rejects, and one that is a JSON object.
InvalidJson == [valid |-> FALSE, data |-> EmptyMap]

JsonObject(data) == [valid |-> TRUE, data |-> data]

\* JsonResponse({'success': ...}, status=...)
JsonResponse(success, status) == [success |-> success, status |-> status]

NoResponse == JsonResponse(FALSE, 0)

\* A handler that returns before it opens agents.json for writing.
Returned(success, status, existing_agents) ==
    [ response |-> JsonResponse(success, status),
      writes |-> FALSE,
      existing_agents |-> existing_agents,
      system_id |-> 0 ]

\* A handler that reaches json.dump(existing_agents, f) and returns success.
Dumped(existing_agents, system_id) ==
    [ response |-> JsonResponse(TRUE, 200),
      writes |-> TRUE,
      existing_agents |-> existing_agents,
      system_id |-> system_id ]

\* next((a for a in existing_agents if str(a.get('id')) == str(agent_id)), None)
\* as the index of the first match, 0 for None.
find_agent(existing_agents, agent_id) ==
    LET hits == { i \in DOMAIN existing_agents : existing_agents[i].id = agent_id }
    IN  IF hits = {} THEN 0 ELSE CHOOSE i \in hits : \A j \in hits : i <= j

\* `if key in data: block_state[key] = data[key]` for every key of the state
merged(block_state, data) ==
    [ k \in DOMAIN block_state |->
        IF k \in DOMAIN data THEN data[k] ELSE block_state[k] ]

\* Variant: the body is parsed before the agent is looked up.
update_block_state_parse_first(block_key, existing_agents, agent_id, body) ==
    LET idx == find_agent(existing_agents, agent_id)
        agent == existing_agents[idx]
        state == [agent.assessment_state EXCEPT ![block_key] = merged(@, body.data)]
        results == IF agent.profile # <<>>
                   THEN run_assessment_logic(agent.profile[1], state, FALSE)
                   ELSE agent.assessment_results
    IN  IF ~body.valid THEN Returned(FALSE, 400, existing_agents)
        ELSE IF idx = 0 THEN Returned(FALSE, 404, existing_agents)
        ELSE Dumped([existing_agents EXCEPT
                        ![idx] = [agent EXCEPT !.assessment_state = state,
                                               !.assessment_results = results]], 0)

\* The body the four api_update_blockN_state handlers share: find the agent
\* (404), parse the body (400), merge it into the block's state, re-run the
\* assessment when the agent has a profile, put the agent back in the list.
update_block_state(block_key, existing_agents, agent_id, body) ==
    LET idx == find_agent(existing_agents, agent_id)
        agent == existing_agents[idx]
        state == [agent.assessment_state EXCEPT ![block_key] = merged(@, body.data)]
        results == IF agent.profile # <<>>
                   THEN run_assessment_logic(agent.profile[1], state, FALSE)
                   ELSE agent.assessment_results
    IN  IF idx = 0 THEN Returned(FALSE, 404, existing_agents)
        ELSE IF ~body.valid THEN Returned(FALSE, 400, existing_agents)
        ELSE Dumped([existing_agents EXCEPT
                        ![idx] = [agent EXCEPT !.assessment_state = state,
                                               !.assessment_results = results]], 0)

api_update_block1_state(existing_agents, agent_id, body) ==
    update_block_state("block1_state", existing_agents, agent_id, body)

api_update_block2_state(existing_agents, agent_id, body) ==
    update_block_state("block2_state", existing_agents, agent_id, body)

api_update_block3_state(existing_agents, agent_id, body) ==
    update_block_state("block3_state", existing_agents, agent_id, body)

api_update_block4_state(existing_agents, agent_id, body) ==
    update_block_state("block4_state", existing_agents, agent_id, body)

\* The POST branch of api_ai_system_detail_data on the agent it found.
detail_saved(agent, data) ==
    LET with_profile ==
            IF "profile" \in DOMAIN data
            THEN [agent EXCEPT
                    !.profile = <<data.profile>>,
                    !.assessment_results =
                        run_assessment_logic(data.profile, agent.assessment_state, TRUE),
                    !.assessment_state =
                        assessment_state_after(agent.assessment_state, TRUE)]
            ELSE agent
        with_assessment ==
            IF "assessment" \in DOMAIN data
            THEN [with_profile EXCEPT
                    !.assessment_state = data.assessment.assessment_state,
                    !.assessment_results = data.assessment.assessment_results]
            ELSE with_profile
        with_result ==
            IF "result" \in DOMAIN data
            THEN [with_assessment EXCEPT !.result = <<data.result>>]
            ELSE with_assessment
    IN  IF "documents" \notin DOMAIN data THEN with_result
        ELSE IF Len(data.documents) = 1
             THEN [with_result EXCEPT !.documents = data.documents,
                                      !.document = data.documents]
        ELSE IF Len(data.documents) = 0
             THEN [with_result EXCEPT !.documents = <<>>, !.document = <<>>]
        ELSE [with_result EXCEPT !.documents = data.documents]

\* api_ai_system_detail_data: 404 for an unknown agent, GET answers without
\* reading the body, POST parses the body (400) and saves.
api_ai_system_detail_data(method, existing_agents, agent_id, body) ==
    LET idx == find_agent(existing_agents, agent_id)
    IN  IF idx = 0 THEN Returned(FALSE, 404, existing_agents)
        ELSE IF method = "GET" THEN Returned(TRUE, 200, existing_agents)
        ELSE IF ~body.valid THEN Returned(FALSE, 400, existing_agents)
        ELSE Dumped([existing_agents EXCEPT
                        ![idx] = detail_saved(existing_agents[idx], body.data)], 0)

\* max([agent.get('id', 0) for agent in existing_agents], default=0) + 1
next_id(existing_agents) ==
    LET ids == { existing_agents[i].id : i \in DOMAIN existing_agents }
    IN  IF ids = {} THEN 1 ELSE (CHOOSE m \in ids : \A n \in ids : n <= m) + 1

\* api_create_ai_inventory_system: parse the body (400), append an agent
\* with the next id, data.get('name', '') and the document if one is given,
\* and dump the list.
api_create_ai_inventory_system(existing_agents, body) ==
    LET name == IF "name" \in DOMAIN body.data THEN body.data.name ELSE ""
        document == IF "document" \in DOMAIN body.data
                    THEN <<body.data.document>> ELSE <<>>
        new_agent == [Agent(next_id(existing_agents), name, <<>>,
                            AssessmentStateDefault, NoResults)
                        EXCEPT !.document = document]
    IN  IF ~body.valid THEN Returned(FALSE, 400, existing_agents)
        ELSE Dumped(Append(existing_agents, new_agent), next_id(existing_agents))

\* api_delete_ai_inventory_systems: parse the body (400), refuse an empty
\* system_ids (400), drop the listed agents, 404 when none was dropped.
api_delete_ai_inventory_systems(existing_agents, body) ==
    LET system_ids == IF "system_ids" \in DOMAIN body.data
                      THEN body.data.system_ids ELSE {}
        remaining_agents ==
            SelectSeq(existing_agents, LAMBDA agent : agent.id \notin system_ids)
    IN  IF ~body.valid THEN Returned(FALSE, 400, existing_agents)
        ELSE IF system_ids = {} THEN Returned(FALSE, 400, existing_agents)
        ELSE IF Len(remaining_agents) = Len(existing_agents)
             THEN Returned(FALSE, 404, existing_agents)
        ELSE Dumped(remaining_agents, 0)

----------------------------------------------------------------------------
(* MockAgentRepository behind the process-wide DependencyContainer.        *)

\* `_container: DependencyContainer = None`
NoContainer == [created |-> FALSE, loaded |-> FALSE, cache |-> <<>>]

\* get_container(base_dir): the container is built on the first call, with a
\* MockAgentRepository whose _cache is None, and returned as it is afterwards.
get_container(_container) ==
    IF ~_container.created
    THEN [created |-> TRUE, loaded |-> FALSE, cache |-> <<>>]
    ELSE _container

\* Variant: agents.json is read on every call.
load_data_every_call(repository, file) ==
    [repository EXCEPT !.loaded = TRUE, !.cache = load_agents(file)]

\* MockAgentRepository._load_data: agents.json is read while _cache is None;
\* [] is cached when the file does not exist.
load_data(repository, file) ==
    IF ~repository.loaded
    THEN [repository EXCEPT !.loaded = TRUE, !.cache = load_agents(file)]
    ELSE repository

\* str.lower() on the names and search terms of the model
lower(s) ==
    CASE s = "Border screening" -> "border screening"
      [] s = "Chat assistant" -> "chat assistant"
      [] OTHER -> s

\* AgentFactory.create_from_dict: the Agent entity, by the id and the name
\* it takes from the dict.
dict_to_entity(agent_data) == [id |-> agent_data.id, name |-> agent_data.name]

\* Agent.__post_init__ raises for an empty name, and create_from_dict turns
\* that into InvalidEntityException.
entity_raises(agent_data) == agent_data.name = ""

\* What a repository call hands back: a list of entities, or an exception.
Entities(data) ==
    IF \E i \in DOMAIN data : entity_raises(data[i])
    THEN [raised |-> TRUE, agents |-> <<>>]
    ELSE [raised |-> FALSE, agents |-> [i \in DOMAIN data |-> dict_to_entity(data[i])]]

\* MockAgentRepository.get_all on the cached list
get_all(data) == Entities(data)

\* MockAgentRepository.get_by_id on the cached list: the first agent with
\* that id as a one-element list, the empty list for None.
get_by_id(data, agent_id) ==
    LET idx == find_agent(data, agent_id)
    IN  IF idx = 0 THEN Entities(<<>>) ELSE Entities(<<data[idx]>>)

\* `search_lower in agent_data.get('name', '').lower()`, on lowered strings
name_hits == { <<"chat", "chat assistant">> }

\* MockAgentRepository.search on the cached list
search(data, search_term) ==
    IF search_term = "" THEN get_all(data)
    ELSE Entities(SelectSeq(data,
             LAMBDA agent_data :
                 \/ lower(search_term) = lower(agent_data.name)
                 \/ <<lower(search_term), lower(agent_data.name)>> \in name_hits))

\* No repository call has been answered yet.
NoAnswer ==
    [ given |-> FALSE, method |-> "", agent_id |-> 0, search_term |-> "",
      raised |-> FALSE, agents |-> <<>>, on_disk |-> <<>> ]

\* The answer of the repository method `method` on the cached list.
answer_of(method, agent_id, search_term, data) ==
    CASE method = "get_all" -> get_all(data)
      [] method = "get_by_id" -> get_by_id(data, agent_id)
      [] method = "search" -> search(data, search_term)

----------------------------------------------------------------------------
(* The agents.json the model starts from and the requests it serves.       *)

\* A profile that triggers Block 1 and Block 2, and one that passes Block 1.
BorderScreeningProfile ==
    [ProfileDefault EXCEPT
        !.capability_practices = JsonList(<<Practice5_1_f>>),
        !.intended_purpose = [sector_domain |-> JsonList(<<"Law enforcement">>),
                              safety_component |-> "",
                              third_party_conformity |-> ""]]

ChatProfile ==
    [ProfileDefault EXCEPT
        !.capability_practices = JsonList(<<NoneOfTheAbove>>),
        !.interacts_persons = "Yes"]

\* An agent whose profile was saved (and so assessed) through the detail
\* endpoint, and one that was only created.
InitialAgents ==
    << Agent(1, "Border screening", <<BorderScreeningProfile>>,
             AssessmentStateDefault,
             run_assessment_logic(BorderScreeningProfile, AssessmentStateDefault, TRUE)),
       Agent(2, "Chat assistant", <<>>, AssessmentStateDefault, NoResults) >>

InitialFiles == { NoFile, dump_agents(InitialAgents) }

\* The agent ids of the URLs: the two initial agents and the next id.
AgentIds == { InitialAgents[i].id : i \in DOMAIN InitialAgents }
                \cup { next_id(InitialAgents) }

\* The requests in flight.
Requests == {"r1", "r2"}

Block1Bodies == { InvalidJson, JsonObject([prohibited_confirmed |-> TRUE]) }

Block2Bodies == { InvalidJson, JsonObject([high_risk_confirmed |-> TRUE]) }

Block3Bodies == { InvalidJson, JsonObject([transparency_confirmed |-> TRUE]) }

Block4Bodies ==
    { InvalidJson, JsonObject([gpai_confirmed |-> TRUE, gpai_provider_answer |-> "Yes"]) }

DetailBodies ==
    { InvalidJson,
      JsonObject([profile |-> ChatProfile]),
      JsonObject([assessment |-> [assessment_state |-> AssessmentStateDefault,
                                  assessment_results |-> NoResults]]),
      JsonObject([result |-> "Minimal", documents |-> <<"policy.pdf">>]) }

CreateBodies ==
    { InvalidJson, JsonObject([name |-> "scoring"]), JsonObject(EmptyMap) }

DeleteBodies ==
    { InvalidJson, JsonObject([system_ids |-> {}]) }
        \cup { JsonObject([system_ids |-> {i}]) : i \in AgentIds }

\* A request slot that holds no request.
IdleRequest ==
    [ pc |-> "idle", handler |-> "", method |-> "", agent_id |-> 0,
      body |-> InvalidJson, read_agents |-> <<>>, existing_agents |-> <<>>,
      response |-> NoResponse, system_id |-> 0 ]

----------------------------------------------------------------------------
(* The state machine: a stored profile and assessment state, and the two   *)
(* ways the views run the assessment on them.                              *)

InitWith(profiles, states) ==
    /\ profile_data \in profiles
    /\ assessment_state \in states
    /\ assessment_results = NoResults
    /\ pc = "loaded"
    /\ agents_file = NoFile
    /\ requests = [r \in Requests |-> IdleRequest]
    /\ log = <<>>
    /\ container = NoContainer
    /\ repository_answer = NoAnswer

\* api_ai_system_detail_data, POST with a profile: a fresh assessment.
RunAssessmentFresh ==
    /\ assessment_results' = run_assessment_logic(profile_data, assessment_state, TRUE)
    /\ assessment_state' = assessment_state_after(assessment_state, TRUE)
    /\ pc' = "assessed"
    /\ UNCHANGED <<profile_data, store_vars>>

\* api_update_block1_state .. api_update_block4_state: the re-run that keeps
\* the state.
RunAssessmentUpdate ==
    /\ assessment_results' = run_assessment_logic(profile_data, assessment_state, FALSE)
    /\ assessment_state' = assessment_state_after(assessment_state, FALSE)
    /\ pc' = "assessed"
    /\ UNCHANGED <<profile_data, store_vars>>

Next == RunAssessmentFresh \/ RunAssessmentUpdate

SpecBlock1 == InitWith(Block1Profiles, Block1States) /\ [][Next]_vars

SpecBlock2 == InitWith(Block2Profiles, Block2States) /\ [][Next]_vars

SpecBlock3 == InitWith(Block3Profiles, Block3States) /\ [][Next]_vars

Init == InitWith(AllProfiles, AllStates)

Spec == Init /\ [][Next]_vars

----------------------------------------------------------------------------
(* The API views as steps: a request reads agents.json and works on its    *)
(* own copy of the list; a request that got as far as json.dump writes     *)
(* the whole file in a later step. Nothing orders the steps of two         *)
(* requests.                                                               *)

StoreInit ==
    /\ profile_data = ProfileDefault
    /\ assessment_state = AssessmentStateDefault
    /\ assessment_results = NoResults
    /\ pc = "loaded"
    /\ agents_file \in InitialFiles
    /\ requests = [r \in Requests |-> IdleRequest]
    /\ log = <<>>
    /\ container = NoContainer
    /\ repository_answer = NoAnswer

\* The request in slot r has read agents.json and run its handler up to the
\* write: it is answered if the handler returned early, and holds the list to
\* dump otherwise.
Served(r, handler, method, agent_id, body, outcome) ==
    /\ requests' = [requests EXCEPT ![r] =
          [ pc |-> IF outcome.writes THEN "loaded" ELSE "done",
            handler |-> handler,
            method |-> method,
            agent_id |-> agent_id,
            body |-> body,
            read_agents |-> load_agents(agents_file),
            existing_agents |-> outcome.existing_agents,
            response |-> IF outcome.writes THEN NoResponse ELSE outcome.response,
            system_id |-> outcome.system_id ]]
    /\ log' = Append(log, <<r, "read">>)
    /\ UNCHANGED <<agents_file, container, repository_answer, engine_vars>>

UpdateBlock1State(r) ==
    /\ requests[r].pc = "idle"
    /\ \E agent_id \in AgentIds, body \in Block1Bodies :
          Served(r, "api_update_block1_state", "POST", agent_id, body,
                 api_update_block1_state(load_agents(agents_file), agent_id, body))

UpdateBlock2State(r) ==
    /\ requests[r].pc = "idle"
    /\ \E agent_id \in AgentIds, body \in Block2Bodies :
          Served(r, "api_update_block2_state", "POST", agent_id, body,
                 api_update_block2_state(load_agents(agents_file), agent_id, body))

UpdateBlock3State(r) ==
    /\ requests[r].pc = "idle"
    /\ \E agent_id \in AgentIds, body \in Block3Bodies :
          Served(r, "api_update_block3_state", "POST", agent_id, body,
                 api_update_block3_state(load_agents(agents_file), agent_id, body))

UpdateBlock4State(r) ==
    /\ requests[r].pc = "idle"
    /\ \E agent_id \in AgentIds, body \in Block4Bodies :
          Served(r, "api_update_block4_state", "POST", agent_id, body,
                 api_update_block4_state(load_agents(agents_file), agent_id, body))

\* GET: a request without a body, which json.loads would reject.
DetailData(r) ==
    /\ requests[r].pc = "idle"
    /\ \E agent_id \in AgentIds :
          \/ Served(r, "api_ai_system_detail_data", "GET", agent_id, InvalidJson,
                    api_ai_system_detail_data("GET", load_agents(agents_file),
                                              agent_id, InvalidJson))
          \/ \E body \in DetailBodies :
                Served(r, "api_ai_system_detail_data", "POST", agent_id, body,
                       api_ai_system_detail_data("POST", load_agents(agents_file),
                                                 agent_id, body))

CreateSystem(r) ==
    /\ requests[r].pc = "idle"
    /\ \E body \in CreateBodies :
          Served(r, "api_create_ai_inventory_system", "POST", 0, body,
                 api_create_ai_inventory_system(load_agents(agents_file), body))

DeleteSystems(r) ==
    /\ requests[r].pc = "idle"
    /\ \E body \in DeleteBodies :
          Served(r, "api_delete_ai_inventory_systems", "POST", 0, body,
                 api_delete_ai_inventory_systems(load_agents(agents_file), body))

\* Variant: the request reads agents.json again and applies its change to
\* what the file holds at the time of the write.
saved_agents_file_rebased(r) ==
    LET request == requests[r]
        on_disk == load_agents(agents_file)
        outcome ==
            CASE request.handler = "api_update_block1_state" ->
                    api_update_block1_state(on_disk, request.agent_id, request.body)
              [] request.handler = "api_update_block2_state" ->
                    api_update_block2_state(on_disk, request.agent_id, request.body)
              [] request.handler = "api_update_block3_state" ->
                    api_update_block3_state(on_disk, request.agent_id, request.body)
              [] request.handler = "api_update_block4_state" ->
                    api_update_block4_state(on_disk, request.agent_id, request.body)
              [] request.handler = "api_ai_system_detail_data" ->
                    api_ai_system_detail_data(request.method, on_disk,
                                              request.agent_id, request.body)
              [] request.handler = "api_create_ai_inventory_system" ->
                    api_create_ai_inventory_system(on_disk, request.body)
              [] request.handler = "api_delete_ai_inventory_systems" ->
                    api_delete_ai_inventory_systems(on_disk, request.body)
    IN  dump_agents(outcome.existing_agents)

\* What the request in slot r leaves in agents.json.
saved_agents_file(r) == dump_agents(requests[r].existing_agents)

\* `with open(agents_file, 'w') ... json.dump(existing_agents, f)` and the
\* success response that follows it.
SaveAgents(r) ==
    /\ requests[r].pc = "loaded"
    /\ agents_file' = saved_agents_file(r)
    /\ requests' = [requests EXCEPT ![r].pc = "done",
                                    ![r].response = JsonResponse(TRUE, 200)]
    /\ log' = Append(log, <<r, "write">>)
    /\ UNCHANGED <<container, repository_answer, engine_vars>>

\* A repository call is answered: the last answer, with what agents.json
\* held when it was given.
Answered(method, agent_id, search_term, answer) ==
    /\ repository_answer' =
          [ given |-> TRUE, method |-> method, agent_id |-> agent_id,
            search_term |-> search_term, raised |-> answer.raised,
            agents |-> answer.agents, on_disk |-> load_agents(agents_file) ]
    /\ UNCHANGED <<agents_file, requests, log, engine_vars>>

\* ai_systems without a search term, and the use cases: get_all on the
\* repository of get_container(base_dir).
RepositoryGetAll ==
    /\ container' = load_data(get_container(container), agents_file)
    /\ Answered("get_all", 0, "", get_all(container'.cache))

RepositoryGetById ==
    /\ container' = load_data(get_container(container), agents_file)
    /\ \E agent_id \in AgentIds :
          Answered("get_by_id", agent_id, "", get_by_id(container'.cache, agent_id))

\* ai_systems with a search term
RepositorySearch ==
    /\ container' = load_data(get_container(container), agents_file)
    /\ \E search_term \in {"", "chat"} :
          Answered("search", 0, search_term, search(container'.cache, search_term))

StoreNext ==
    \E r \in Requests :
        \/ UpdateBlock1State(r)
        \/ UpdateBlock2State(r)
        \/ UpdateBlock3State(r)
        \/ UpdateBlock4State(r)
        \/ DetailData(r)
        \/ CreateSystem(r)
        \/ DeleteSystems(r)
        \/ SaveAgents(r)

SpecStore == StoreInit /\ [][StoreNext]_vars

RepositoryNext ==
    \/ \E r \in Requests :
          \/ UpdateBlock2State(r)
          \/ CreateSystem(r)
          \/ DeleteSystems(r)
          \/ SaveAgents(r)
    \/ RepositoryGetAll
    \/ RepositoryGetById
    \/ RepositorySearch

SpecRepository == StoreInit /\ [][RepositoryNext]_vars

----------------------------------------------------------------------------
(* What the stored results are read against.                               *)

assessed == pc = "assessed"

capability_practices == AsList(profile_data.capability_practices)
block1_state == assessment_state.block1_state
block2_state == assessment_state.block2_state
block3_state == assessment_state.block3_state
block4_state == assessment_state.block4_state
block1 == assessment_results.block1
block2 == assessment_results.block2
block3 == assessment_results.block3
block4 == assessment_results.block4

TypeOK == pc \in {"loaded", "assessed"}

----------------------------------------------------------------------------
(* Block 1 claims.                                                         *)

\* C1: get_block1_status, base classification. An empty capability_practices
\* (or one that is no list) gives 'Not assessed'; exactly ['None of the above']
\* gives 'PASS'; a list with an entry other than 'None of the above', while
\* prohibited_confirmed is not true, gives 'Triggered' with selected_practices
\* equal to the entries other than 'None of the above', in their order.
C1_BaseClassification ==
    assessed =>
        LET raw == profile_data.capability_practices
            others == SelectSeq(raw.items, LAMBDA p : p # NoneOfTheAbove)
        IN  /\ (raw.kind # "list" \/ raw.items = <<>>) => block1.status = "Not assessed"
            /\ (raw.kind = "list" /\ raw.items = <<NoneOfTheAbove>>) => block1.status = "PASS"
            /\ (raw.kind = "list" /\ others # <<>> /\ ~block1_state.prohibited_confirmed)
                    => /\ block1.status = "Triggered"
                       /\ block1.selected_practices = others

\* 'None of the above' ticked together with a practice, not yet confirmed.
C1_Witness ==
    /\ assessed
    /\ ~block1_state.prohibited_confirmed
    /\ capability_practices = <<NoneOfTheAbove, Practice5_1_f>>
    /\ block1.status = "Triggered"
    /\ block1.selected_practices = <<Practice5_1_f>>

\* C2: once the user has confirmed, a selected practice without an exception
\* (Art. 5(1)(a), (b), (c), (e), or one that is no key of the practices map)
\* makes Block 1 'Prohibited' whatever claiming_exception, the qualifies map
\* and the evidence map hold.
C2_NoExceptionIsProhibited ==
    LET with_exception == {Practice5_1_d, Practice5_1_f, Practice5_1_g, Practice5_1_h}
    IN  ( /\ assessed
          /\ block1_state.prohibited_confirmed
          /\ \E p \in Range(capability_practices) :
                p # NoneOfTheAbove /\ p \notin with_exception )
            => block1.status = "Prohibited"

\* A practice outside the map beside one whose exception is fully claimed
\* and evidenced.
C2_Witness ==
    /\ assessed
    /\ block1_state.prohibited_confirmed
    /\ block1_state.claiming_exception = "Yes"
    /\ capability_practices = <<Practice5_1_f, BiometricIdentification>>
    /\ Practice5_1_f \in DOMAIN block1_state.exception_qualifies_map
    /\ block1_state.exception_qualifies_map[Practice5_1_f] = "Yes"
    /\ Practice5_1_f \in DOMAIN block1_state.exception_evidence_map
    /\ block1_state.exception_evidence_map[Practice5_1_f].link # ""
    /\ block1.status = "Prohibited"

\* C3: exception resolution once the user has confirmed and every selected
\* practice has an exception. claiming_exception 'No': 'Prohibited'; '':
\* 'Triggered'; else a selected practice without an answer: 'Triggered'; else
\* an answer 'No': 'Prohibited'; else an answer 'Not sure': 'Needs Review';
\* else 'Exception claimed' exactly when every selected practice has evidence
\* (a link, files or an explanation), 'Needs Review' otherwise.
C3_ExceptionResolution ==
    LET with_exception == {Practice5_1_d, Practice5_1_f, Practice5_1_g, Practice5_1_h}
        selected == { p \in Range(capability_practices) : p # NoneOfTheAbove }
        claiming == block1_state.claiming_exception
        answers == block1_state.exception_qualifies_map
        evidence == block1_state.exception_evidence_map
        evidenced(p) ==
            /\ p \in DOMAIN evidence
            /\ \/ evidence[p].link # ""
               \/ evidence[p].files # <<>>
               \/ evidence[p].explanation # ""
    IN  ( /\ assessed
          /\ block1_state.prohibited_confirmed
          /\ selected # {}
          /\ selected \subseteq with_exception )
            => block1.status =
                 IF claiming = "No" THEN "Prohibited"
                 ELSE IF claiming = "" THEN "Triggered"
                 ELSE IF \E p \in selected : p \notin DOMAIN answers THEN "Triggered"
                 ELSE IF \E p \in selected : answers[p] = "No" THEN "Prohibited"
                 ELSE IF \E p \in selected : answers[p] = "Not sure" THEN "Needs Review"
                 ELSE IF \A p \in selected : evidenced(p) THEN "Exception claimed"
                 ELSE "Needs Review"

\* Two practices, both answered 'Yes', one evidenced by a link and the other
\* by an explanation.
C3_Witness ==
    /\ assessed
    /\ block1_state.prohibited_confirmed
    /\ block1_state.claiming_exception = "Yes"
    /\ capability_practices = <<Practice5_1_f, Practice5_1_g>>
    /\ DOMAIN block1_state.exception_qualifies_map = {Practice5_1_f, Practice5_1_g}
    /\ \A p \in {Practice5_1_f, Practice5_1_g} : block1_state.exception_qualifies_map[p] = "Yes"
    /\ DOMAIN block1_state.exception_evidence_map = {Practice5_1_f, Practice5_1_g}
    /\ block1_state.exception_evidence_map[Practice5_1_f].link # ""
    /\ block1_state.exception_evidence_map[Practice5_1_g].explanation # ""
    /\ block1_state.exception_evidence_map[Practice5_1_g].link = ""
    /\ block1.status = "Exception claimed"

----------------------------------------------------------------------------
(* Block 2 claims.                                                         *)

sector_domain == AsList(profile_data.intended_purpose.sector_domain)
safety_component == profile_data.intended_purpose.safety_component
third_party_conformity == profile_data.intended_purpose.third_party_conformity
narrow_tasks == AsList(block2_state.narrow_tasks)

\* C5: while Block 1 is 'Prohibited', Block 2 is 'Triggered' as long as
\* high_risk_confirmed is not true and 'High-risk' once it is, whatever the
\* Section 4 answers and the Annex III answers are.
C5_ProhibitedTriggersHighRisk ==
    (assessed /\ block1.status = "Prohibited")
        => block2.status = IF block2_state.high_risk_confirmed THEN "High-risk" ELSE "Triggered"

\* Block 1 Prohibited and the user has confirmed, with Section 4 unanswered
\* and an Annex III answer that would otherwise give 'Not high-risk'.
C5_Witness ==
    /\ assessed
    /\ block1.status = "Prohibited"
    /\ block2_state.high_risk_confirmed
    /\ sector_domain = <<>>
    /\ safety_component = ""
    /\ block2_state.material_influence = "Yes"
    /\ block2.status = "High-risk"

\* C6: while Block 1 is not 'Prohibited', Block 2 is 'Not assessed' whenever
\* not all Section 4 questions are answered: sector_domain is empty, or
\* safety_component is unanswered, or safety_component is 'Yes' with
\* third_party_conformity unanswered.
C6_Section4NotAllAnswered ==
    ( /\ assessed
      /\ block1.status # "Prohibited"
      /\ \/ sector_domain = <<>>
         \/ safety_component = ""
         \/ (safety_component = "Yes" /\ third_party_conformity = "") )
        => block2.status = "Not assessed"

\* C7 as stated, with Condition 2 = some selected sector other than
\* 'Other / not listed': 'De-activated' when neither condition holds,
\* 'Triggered' when one holds and the user has not confirmed, 'High-risk'
\* when the user has confirmed and only Condition 1 holds.
C7_AsStated ==
    LET c1 == safety_component = "Yes" /\ third_party_conformity = "Yes"
        c2 == \E s \in Range(sector_domain) : s # "Other / not listed"
    IN  ( /\ assessed
          /\ block1.status # "Prohibited"
          /\ sector_domain # <<>>
          /\ safety_component # ""
          /\ ~(safety_component = "Yes" /\ third_party_conformity = "") )
            => /\ (~c1 /\ ~c2) => block2.status = "De-activated"
               /\ ((c1 \/ c2) /\ ~block2_state.high_risk_confirmed) => block2.status = "Triggered"
               /\ (block2_state.high_risk_confirmed /\ c1 /\ ~c2) => block2.status = "High-risk"

\* C7, amended: the condition step with Condition 2 = some selected sector
\* other than 'Other / not listed', 'Other / not listed:' and the empty
\* string. Block 1 not 'Prohibited' and Section 4 answered: 'De-activated'
\* when neither condition holds, whatever block2_state is; 'Triggered' when
\* one holds and the user has not confirmed; 'High-risk' when the user has
\* confirmed and only Condition 1 holds, whatever the Annex III answers are.
C7_ConditionStep ==
    LET c1 == safety_component = "Yes" /\ third_party_conformity = "Yes"
        c2 == \E s \in Range(sector_domain) :
                  s # "Other / not listed" /\ s # "Other / not listed:" /\ s # ""
    IN  ( /\ assessed
          /\ block1.status # "Prohibited"
          /\ sector_domain # <<>>
          /\ safety_component # ""
          /\ ~(safety_component = "Yes" /\ third_party_conformity = "") )
            => /\ (~c1 /\ ~c2) => block2.status = "De-activated"
               /\ ((c1 \/ c2) /\ ~block2_state.high_risk_confirmed) => block2.status = "Triggered"
               /\ (block2_state.high_risk_confirmed /\ c1 /\ ~c2) => block2.status = "High-risk"

\* Only the form's 'Other / not listed:' option is ticked and the safety
\* component has no third-party conformity: no condition holds although the
\* user has confirmed.
C7_Witness ==
    /\ assessed
    /\ block1.status # "Prohibited"
    /\ sector_domain = <<"Other / not listed:">>
    /\ safety_component = "Yes"
    /\ third_party_conformity = "No"
    /\ block2_state.high_risk_confirmed
    /\ block2.status = "De-activated"

\* C8: the Annex III test (Block 1 not 'Prohibited', Section 4 not left at
\* 'Not assessed', the user has confirmed, Condition 2 holds) asks Q1 first:
\* 'Not sure' gives 'Needs Review', 'Yes' gives 'Not high-risk', unanswered
\* gives 'Triggered', whatever narrow_tasks, profiling and the evidence are;
\* with Q1 'No', no task selected gives 'Triggered' and a selection holding
\* 'None of above' gives 'Needs Review', whatever profiling and the evidence are.
C8_AnnexIIIOrder ==
    LET q1 == block2_state.material_influence
        c2 == \E s \in Range(sector_domain) :
                  s # "Other / not listed" /\ s # "Other / not listed:" /\ s # ""
    IN  ( /\ assessed
          /\ block1.status # "Prohibited"
          /\ ~(safety_component = "Yes" /\ third_party_conformity = "")
          /\ block2_state.high_risk_confirmed
          /\ c2 )
            => /\ q1 = "Not sure" => block2.status = "Needs Review"
               /\ q1 = "Yes" => block2.status = "Not high-risk"
               /\ q1 = "" => block2.status = "Triggered"
               /\ (q1 = "No" /\ narrow_tasks = <<>>) => block2.status = "Triggered"
               /\ (q1 = "No" /\ "None of above" \in Range(narrow_tasks))
                      => block2.status = "Needs Review"

\* Q1 'No' and 'None of above' ticked beside a specific task, with a
\* profiling answer that would give 'High-risk'.
C8_Witness ==
    /\ assessed
    /\ block1.status = "PASS"
    /\ block2_state.high_risk_confirmed
    /\ sector_domain = <<"Law enforcement">>
    /\ block2_state.material_influence = "No"
    /\ narrow_tasks = <<"Preparatory task", "None of above">>
    /\ block2_state.profiling = "Yes"
    /\ block2.status = "Needs Review"

\* C9: the Annex III outcome once Q1 is 'No' and specific narrow tasks are
\* selected without 'None of above': profiling 'Unknown' gives 'Needs
\* Review', 'Yes' gives 'High-risk', unanswered gives 'Triggered', and 'No'
\* gives 'Not high-risk' exactly when exemption evidence exists
\* (exemption_evidence_uploaded, or a saved link that is not blank) and
\* 'High-risk' otherwise.
C9_AnnexIIIOutcome ==
    LET c2 == \E s \in Range(sector_domain) :
                  s # "Other / not listed" /\ s # "Other / not listed:" /\ s # ""
        specific == \E t \in Range(narrow_tasks) :
                        t \notin {"", " ", "  "} /\ t # "None of above"
        evidence ==
            \/ block2_state.exemption_evidence_uploaded
            \/ block2_state.exemption_evidence_saved_link \notin {"", " ", "  "}
        q3 == block2_state.profiling
    IN  ( /\ assessed
          /\ block1.status # "Prohibited"
          /\ ~(safety_component = "Yes" /\ third_party_conformity = "")
          /\ block2_state.high_risk_confirmed
          /\ c2
          /\ block2_state.material_influence = "No"
          /\ specific
          /\ "None of above" \notin Range(narrow_tasks) )
            => /\ q3 = "Unknown" => block2.status = "Needs Review"
               /\ q3 = "Yes" => block2.status = "High-risk"
               /\ q3 = "" => block2.status = "Triggered"
               /\ q3 = "No" => block2.status = IF evidence THEN "Not high-risk" ELSE "High-risk"

\* Profiling 'No' with nothing uploaded and a saved link of blanks only.
C9_Witness ==
    /\ assessed
    /\ block1.status = "PASS"
    /\ block2_state.high_risk_confirmed
    /\ sector_domain = <<"Law enforcement">>
    /\ block2_state.material_influence = "No"
    /\ narrow_tasks = <<"Preparatory task">>
    /\ block2_state.profiling = "No"
    /\ ~block2_state.exemption_evidence_uploaded
    /\ block2_state.exemption_evidence_saved_link = "  "
    /\ block2.status = "High-risk"

----------------------------------------------------------------------------
(* Claims on Blocks 3 and 4.                                               *)

\* C4: in every result of run_assessment_logic, Block 3 is 'De-activated'
\* if and only if Block 1 is 'Prohibited', and so is Block 4, whatever the
\* profile, block3_state and block4_state are.
C4_DeactivatedIffProhibited ==
    assessed =>
        /\ block3.status = "De-activated" <=> block1.status = "Prohibited"
        /\ block4.status = "De-activated" <=> block1.status = "Prohibited"

\* Block 1 Prohibited over a profile and states that would otherwise make
\* Block 3 and Block 4 'Applies'.
C4_Witness ==
    /\ assessed
    /\ block1.status = "Prohibited"
    /\ profile_data.interacts_persons = "Yes"
    /\ block3_state.transparency_confirmed
    /\ AsList(block3_state.exception_options) = <<group4_options[3]>>
    /\ profile_data.gpai_integration = "Yes"
    /\ block4_state.gpai_confirmed
    /\ block4_state.gpai_provider_answer = "Yes"
    /\ block3.status = "De-activated"
    /\ block4.status = "De-activated"

\* C10: Block 3 before the exception selection, Block 1 not 'Prohibited'.
\* An empty capability_practices gives 'Not assessed'; otherwise a met
\* trigger with interacts_persons 'Unknown' gives 'Not assessed' whatever
\* transparency_confirmed is, no met trigger gives 'Not Applicable', and a met
\* trigger without Unknown and without confirmation gives 'Triggered'.
C10_Block3BeforeExceptions ==
    LET triggers == triggers_of(profile_data)
        unknown == profile_data.interacts_persons = "Unknown"
    IN  (assessed /\ block1.status # "Prohibited")
            => /\ capability_practices = <<>> => block3.status = "Not assessed"
               /\ (capability_practices # <<>> /\ triggers # {} /\ unknown)
                      => block3.status = "Not assessed"
               /\ (capability_practices # <<>> /\ triggers = {})
                      => block3.status = "Not Applicable"
               /\ ( /\ capability_practices # <<>>
                    /\ triggers # {}
                    /\ ~unknown
                    /\ ~block3_state.transparency_confirmed )
                      => block3.status = "Triggered"

\* A capability trigger with interacts_persons 'Unknown' after the user has
\* confirmed.
C10_Witness ==
    /\ assessed
    /\ block1.status = "Triggered"
    /\ capability_practices = <<Practice5_1_g>>
    /\ profile_data.interacts_persons = "Unknown"
    /\ block3_state.transparency_confirmed
    /\ block3.status = "Not assessed"

----------------------------------------------------------------------------
(* Claims about the API views and agents.json.                             *)

\* The detail endpoint and the four block-state update endpoints.
StateHandlers ==
    { "api_ai_system_detail_data", "api_update_block1_state", "api_update_block2_state",
      "api_update_block3_state", "api_update_block4_state" }

\* The request in slot r has its response.
answered(r) == requests[r].pc = "done"

\* The agent id of the request in slot r is in the list it read.
known_agent(r) ==
    \E i \in DOMAIN requests[r].read_agents :
        requests[r].read_agents[i].id = requests[r].agent_id

targets(r) ==
    CASE requests[r].handler = "api_create_ai_inventory_system" -> {requests[r].system_id}
      [] requests[r].handler = "api_delete_ai_inventory_systems" ->
            requests[r].body.data.system_ids
      [] OTHER -> {requests[r].agent_id}

\* The entry of a list for an agent id: <<agent>>, or <<>> when there is none.
entry(agents, agent_id) ==
    IF find_agent(agents, agent_id) = 0 THEN <<>>
    ELSE <<agents[find_agent(agents, agent_id)]>>

\* Both requests read agents.json before either wrote it; a wrote first.
BothReadThenWrote(a, b) ==
    /\ Len(log) = 4
    /\ {log[1], log[2]} = {<<a, "read">>, <<b, "read">>}
    /\ log[3] = <<a, "write">>
    /\ log[4] = <<b, "write">>

\* C12: when two requests both read agents.json before either writes it,
\* both are answered success, the file is the list the later writer dumped,
\* and for every agent id the earlier writer changed and the later one did
\* not, the file holds what was read before the change (the updated agent is
\* back to its old entry, the created agent is missing, the deleted agent is
\* back): the earlier request's change is lost.
C12_LostUpdate ==
    \A a \in Requests, b \in Requests :
        BothReadThenWrote(a, b) =>
            /\ requests[a].response = JsonResponse(TRUE, 200)
            /\ requests[b].response = JsonResponse(TRUE, 200)
            /\ agents_file = [exists |-> TRUE, agents |-> requests[b].existing_agents]
            /\ \A agent_id \in targets(a) \ targets(b) :
                  entry(agents_file.agents, agent_id)
                      = entry(requests[a].read_agents, agent_id)

\* C12 witness: block-state updates for agent 1 and agent 2 both read the
\* file before either wrote it; both were answered success, and the file does
\* not hold the agent 1 that the first request dumped.
C12_Witness ==
    /\ BothReadThenWrote("r1", "r2")
    /\ requests["r1"].handler = "api_update_block2_state"
    /\ requests["r1"].agent_id = 1
    /\ requests["r2"].handler = "api_update_block2_state"
    /\ requests["r2"].agent_id = 2
    /\ requests["r1"].response.success
    /\ requests["r2"].response.success
    /\ entry(requests["r1"].existing_agents, 1)[1].assessment_state.block2_state.high_risk_confirmed
    /\ ~entry(agents_file.agents, 1)[1].assessment_state.block2_state.high_risk_confirmed

----------------------------------------------------------------------------
(* Claims about run_assessment_logic as a whole.                           *)

----------------------------------------------------------------------------
(* Claims about the repository.                                            *)

\* C14: once the repository of the container has loaded agents.json, its
\* cached list never changes, whatever the API views write to the file, and
\* every answer of get_all, get_by_id and search is the answer on that list.
C14_NeverRefreshed ==
    /\ [](repository_answer.given =>
             /\ container.loaded
             /\ repository_answer.raised =
                   answer_of(repository_answer.method, repository_answer.agent_id,
                             repository_answer.search_term, container.cache).raised
             /\ repository_answer.agents =
                   answer_of(repository_answer.method, repository_answer.agent_id,
                             repository_answer.search_term, container.cache).agents)
    /\ [][ container.loaded =>
               /\ container'.loaded
               /\ container'.cache = container.cache ]_vars

\* C14 witness: the repository loaded the two initial agents; a third system
\* was then created through the API and is in agents.json; get_all, asked
\* while the file held the three, answered with the two.
C14_Witness ==
    /\ container.loaded
    /\ container.cache = InitialAgents
    /\ repository_answer.given
    /\ repository_answer.method = "get_all"
    /\ Len(repository_answer.on_disk) = Len(InitialAgents) + 1
    /\ repository_answer.on_disk = load_agents(agents_file)
    /\ \E r \in Requests :
          /\ requests[r].handler = "api_create_ai_inventory_system"
          /\ requests[r].response = JsonResponse(TRUE, 200)
          /\ entry(agents_file.agents, requests[r].system_id) # <<>>
          /\ \A i \in DOMAIN repository_answer.agents :
                repository_answer.agents[i].id # requests[r].system_id
    /\ Len(repository_answer.agents) = Len(InitialAgents)

====
